---- MODULE Spec2Model ----
(***************************************************************************)
(* A model of the amethyst-console command console (src/src/lib.rs) over   *)
(* the demo configuration tree (src/examples/demo_console.rs).             *)
(*                                                                         *)
(* Text is modelled as a sequence of one-character strings so that the     *)
(* string operations of the code (split, trim_end, contains, starts_with,  *)
(* push_str, parse, to_string) are computed character by character.        *)
(* A colour [f32; 4] is a 4-tuple whose components are counted in halves:  *)
(* 2 stands for 1.0, 1 for 0.5 and 0 for 0.0 (color_test uses r/2, g/2,    *)
(* b/2 with r, g, b in 0..2).                                              *)
(***************************************************************************)
EXTENDS Integers, Sequences, FiniteSets, TLC

VARIABLES cfg, buf, last

vars == <<cfg, buf, last>>

(***************************************************************************)
(* Bound of the model: run_cmd is taken only while the scrollback holds at *)
(* most MaxBuf spans (the Clear button empties it).                        *)
(***************************************************************************)
MaxBuf == 0

\* outside the session of the game (the library's functions called
\* directly, a session that is never cleared, a root with repeated names)
\* a step is taken only while the scrollback holds at most MaxSpans spans
MaxSpans == 1

\* ------------------------------------------------------------------ text

\* char::is_whitespace, restricted to the characters that occur here
Whitespace == {" ", "\n", "\t", "\r"}

\* str::trim_end
RECURSIVE TrimEnd(_)
TrimEnd(s) ==
    IF s = <<>> THEN s
    ELSE IF s[Len(s)] \in Whitespace THEN TrimEnd(SubSeq(s, 1, Len(s) - 1))
    ELSE s

\* str::starts_with
StartsWith(s, p) == Len(p) <= Len(s) /\ SubSeq(s, 1, Len(p)) = p

\* str::contains
Contains(s, p) == \E i \in 0..(Len(s) - Len(p)) : SubSeq(s, i + 1, i + Len(p)) = p

\* mutant of Split: the empty tokens after the first token are dropped
RECURSIVE SplitDropsEmpty(_, _)
SplitDropsEmpty(s, ch) ==
    IF \A i \in 1..Len(s) : s[i] # ch THEN <<s>>
    ELSE LET i    == CHOOSE k \in 1..Len(s) : s[k] = ch /\ \A j \in 1..(k - 1) : s[j] # ch
             rest == SplitDropsEmpty(SubSeq(s, i + 1, Len(s)), ch)
         IN  <<SubSeq(s, 1, i - 1)>> \o (IF Head(rest) = <<>> THEN Tail(rest) ELSE rest)

\* str::split(ch): every separator cuts, empty tokens are kept
RECURSIVE Split(_, _)
Split(s, ch) ==
    IF \A i \in 1..Len(s) : s[i] # ch THEN <<s>>
    ELSE LET i == CHOOSE k \in 1..Len(s) : s[k] = ch /\ \A j \in 1..(k - 1) : s[j] # ch
         IN  <<SubSeq(s, 1, i - 1)>> \o Split(SubSeq(s, i + 1, Len(s)), ch)

\* [&str]::join(sep)
RECURSIVE Join(_, _)
Join(parts, sep) ==
    IF parts = <<>> THEN <<>>
    ELSE IF Len(parts) = 1 THEN parts[1]
    ELSE parts[1] \o sep \o Join(Tail(parts), sep)

\* ------------------------------------------------- property value types

Digits == <<"0", "1", "2", "3", "4", "5", "6", "7", "8", "9">>

IsDigit(c) == \E i \in 1..10 : Digits[i] = c

DigitVal(c) == (CHOOSE i \in 1..10 : Digits[i] = c) - 1

AllDigits(s) == \A i \in 1..Len(s) : IsDigit(s[i])

RECURSIVE DigitsVal(_)
DigitsVal(s) == IF s = <<>> THEN 0 ELSE DigitsVal(SubSeq(s, 1, Len(s) - 1)) * 10 + DigitVal(s[Len(s)])

RECURSIVE NatToStr(_)
NatToStr(n) == IF n < 10 THEN <<Digits[n + 1]>> ELSE NatToStr(n \div 10) \o <<Digits[(n % 10) + 1]>>

RECURSIVE Pow10(_)
Pow10(k) == IF k = 0 THEN 1 ELSE 10 * Pow10(k - 1)

(***************************************************************************)
(* An f32 is the decimal number (-1)^neg * mant / 10^frac with no trailing *)
(* zero in the fraction, so that equal numbers are equal records.  The     *)
(* inputs of the model have at most four significant digits, all exactly   *)
(* round-tripped by f32.                                                   *)
(***************************************************************************)
RECURSIVE NormF32(_)
NormF32(v) ==
    IF v.frac > 0 /\ v.mant % 10 = 0
    THEN NormF32([v EXCEPT !.mant = v.mant \div 10, !.frac = v.frac - 1])
    ELSE v

F32(n) == [neg |-> FALSE, mant |-> n, frac |-> 0]

EmptyFloat == <<"c","a","n","n","o","t"," ","p","a","r","s","e"," ","f","l","o","a","t"," ","f","r","o","m"," ","e","m","p","t","y"," ","s","t","r","i","n","g">>
InvalidFloat == <<"i","n","v","a","l","i","d"," ","f","l","o","a","t"," ","l","i","t","e","r","a","l">>

(***************************************************************************)
(* <f32 as FromStr>::from_str for literals of the shape                    *)
(* [+-]digits[.digits] (at least one digit); anything else of the model's  *)
(* inputs is an invalid float literal.  Exponents, inf and nan are not     *)
(* among the inputs of the model.                                          *)
(***************************************************************************)
ParseF32(s) ==
    IF s = <<>> THEN [ok |-> FALSE, val |-> F32(0), err |-> EmptyFloat]
    ELSE LET signed == s[1] \in {"+", "-"}
             body   == IF signed THEN Tail(s) ELSE s
             dots   == {i \in 1..Len(body) : body[i] = "."}
             int    == IF dots = {} THEN body
                       ELSE SubSeq(body, 1, (CHOOSE i \in dots : TRUE) - 1)
             fr     == IF dots = {} THEN <<>>
                       ELSE SubSeq(body, (CHOOSE i \in dots : TRUE) + 1, Len(body))
             good   == /\ Cardinality(dots) <= 1
                       /\ AllDigits(int) /\ AllDigits(fr)
                       /\ Len(int) + Len(fr) > 0
         IN  IF good
             THEN [ok |-> TRUE,
                   val |-> NormF32([neg  |-> signed /\ s[1] = "-",
                                    mant |-> DigitsVal(int \o fr),
                                    frac |-> Len(fr)]),
                   err |-> <<>>]
             ELSE [ok |-> FALSE, val |-> F32(0), err |-> InvalidFloat]

RECURSIVE Zeros(_)
Zeros(k) == IF k <= 0 THEN <<>> ELSE <<"0">> \o Zeros(k - 1)

\* <f32 as Display>::fmt: the shortest decimal that reads back as the value
DisplayF32(v) ==
    LET p      == Pow10(v.frac)
        whole  == NatToStr(v.mant \div p)
        digits == NatToStr(v.mant % p)
        part   == IF v.frac = 0 THEN <<>>
                  ELSE <<".">> \o Zeros(v.frac - Len(digits)) \o digits
    IN  (IF v.neg THEN <<"-">> ELSE <<>>) \o whole \o part

\* <String as FromStr>::from_str never fails and copies the token
ParseString(s) == [ok |-> TRUE, val |-> s, err |-> <<>>]

\* <String as Display>::fmt
DisplayString(v) == v

\* FromStr of a property's type
Parse(ty, s) == IF ty = "f32" THEN ParseF32(s) ELSE ParseString(s)

\* ToString of a property's type
Display(ty, v) == IF ty = "f32" THEN DisplayF32(v) ELSE DisplayString(v)

\* ------------------------------------------------- the configuration tree

\* the fields of GameConfig { arena: ArenaConfig, paddle: PaddleConfig }
Fields == {"width", "height", "velocity", "color"}

Ty(field) == IF field = "color" THEN "String" ELSE "f32"

\* ArenaConfig::default(), PaddleConfig::default()
DefaultConfig ==
    [width |-> F32(100), height |-> F32(100), velocity |-> F32(3), color |-> <<"w","h","i","t","e">>]

\* cvar::Property(name, description, &mut variable, default)
Property(name, desc, field) ==
    [kind |-> "Prop", name |-> name, desc |-> desc, field |-> field,
     handler |-> "", children |-> <<>>]

\* cvar::Action(name, description, handler)
Action(name, desc, handler) ==
    [kind |-> "Action", name |-> name, desc |-> desc, field |-> "",
     handler |-> handler, children |-> <<>>]

\* cvar::List(name, description, visitor)
List(name, desc, children) ==
    [kind |-> "List", name |-> name, desc |-> desc, field |-> "",
     handler |-> "", children |-> children]

\* ArenaConfig::visit_mut_ext
ArenaNodes ==
    << Property(<<"w","i","d","t","h">>, <<"A","r","e","n","a"," ","w","i","d","t","h">>, "width"),
       Property(<<"h","e","i","g","h","t">>, <<"A","r","e","n","a"," ","h","e","i","g","h","t">>, "height") >>

\* PaddleConfig::visit_mut_ext
PaddleNodes ==
    << Property(<<"v","e","l","o","c","i","t","y">>, <<"p","a","d","d","l","e"," ","v","e","l","o","c","i","t","y">>, "velocity"),
       Property(<<"c","o","l","o","r">>, <<"p","a","d","d","l","e"," ","c","o","l","o","r">>, "color") >>

(***************************************************************************)
(* GameConfig::visit_mut_ext: its own actions, then its children.  The     *)
(* arena is visited in place (flat names, as in the demo); the paddle is   *)
(* registered as the namespace `paddle`, which gives the dotted paths      *)
(* paddle.velocity and paddle.color.  greet is the action of the spec's    *)
(* scenario: it writes one text to the sink.                               *)
(***************************************************************************)
AppTree ==
    << Action(<<"c","o","l","o","r","_","t","e","s","t">>, <<"T","e","s","t"," ","c","o","n","s","o","l","e"," ","c","o","l","o","r","s">>, "color_test"),
       Action(<<"g","r","e","e","t">>, <<"S","a","y"," ","h","e","l","l","o">>, "greet") >>
    \o ArenaNodes
    \o << List(<<"p","a","d","d","l","e">>, <<"P","a","d","d","l","e"," ","s","e","t","t","i","n","g","s">>, PaddleNodes) >>

\* the actions VisitMutExt::visit_mut emits before the closure's nodes
BuiltinNodes ==
    << Action(<<"h","e","l","p">>, <<"L","i","s","t"," ","a","l","l"," ","c","o","m","m","a","n","d","s"," ","a","n","d"," ","p","r","o","p","e","r","t","i","e","s">>, "help"),
       Action(<<"f","i","n","d">>, <<"<","t","e","x","t",">","\n","S","e","a","r","c","h"," ","f","o","r"," ","m","a","t","c","h","i","n","g"," ","c","o","m","m","a","n","d","s">>, "find"),
       Action(<<"r","e","s","e","t">>, <<"<","v","a","r",">","\n","S","e","t"," ","a"," ","p","r","o","p","e","r","t","y"," ","t","o"," ","i","t","s"," ","d","e","f","a","u","l","t">>, "reset") >>

\* the nodes VisitMutExt::visit_mut emits for the game: help, find, reset, then the closure's
RootTree == BuiltinNodes \o AppTree

\* ------------------------------------------------------- cvar::console

(***************************************************************************)
(* cvar's path comparison: the node's name is the whole path, or it is the *)
(* part of the path before a dot (the rest is looked up below the node).   *)
(***************************************************************************)
ComparePath(path, name) ==
    IF Len(path) = Len(name) /\ path = name THEN [tag |-> "True", tail |-> <<>>]
    ELSE IF Len(path) > Len(name) /\ path[Len(name) + 1] = "." /\ StartsWith(path, name)
    THEN [tag |-> "Part", tail |-> SubSeq(path, Len(name) + 2, Len(path))]
    ELSE [tag |-> "False", tail |-> <<>>]

(***************************************************************************)
(* cvar::console::find: one traversal; the callback runs on every node     *)
(* whose path is the queried one, in emission order (a visit cannot be     *)
(* stopped early: the visitor's callback returns nothing).                 *)
(***************************************************************************)
RECURSIVE FindNodes(_, _)
FindNodes(list, path) ==
    IF list = <<>> THEN <<>>
    ELSE LET node == Head(list)
             c    == ComparePath(path, node.name)
             here == IF c.tag = "True" THEN <<node>>
                     ELSE IF c.tag = "Part" /\ node.kind = "List"
                     THEN FindNodes(node.children, c.tail)
                     ELSE <<>>
         IN  here \o FindNodes(Tail(list), path)

\* mutant of WalkNodes: the walk does not descend into namespaces
RECURSIVE WalkFlat(_, _)
WalkFlat(list, prefix) ==
    IF list = <<>> THEN <<>>
    ELSE LET node == Head(list)
             path == IF prefix = <<>> THEN node.name ELSE prefix \o <<".">> \o node.name
         IN  <<[path |-> path, node |-> node]>> \o WalkFlat(Tail(list), prefix)

\* cvar::console::walk: depth first, every node with its dotted path
RECURSIVE WalkNodes(_, _)
WalkNodes(list, prefix) ==
    IF list = <<>> THEN <<>>
    ELSE LET node == Head(list)
             path == IF prefix = <<>> THEN node.name ELSE prefix \o <<".">> \o node.name
             sub  == IF node.kind = "List" THEN WalkNodes(node.children, path) ELSE <<>>
         IN  <<[path |-> path, node |-> node]>> \o sub \o WalkNodes(Tail(list), prefix)

IsProp(n) == n.kind = "Prop"
IsAction(n) == n.kind = "Action"

\* every property below a list of nodes (what cvar::console::reset_all resets)
RECURSIVE PropsBelow(_)
PropsBelow(list) ==
    IF list = <<>> THEN <<>>
    ELSE LET node == Head(list)
             here == IF node.kind = "Prop" THEN <<node>>
                     ELSE IF node.kind = "List" THEN PropsBelow(node.children)
                     ELSE <<>>
         IN  here \o PropsBelow(Tail(list))

\* ---------------------------------------------------- results and spans

Ok(text) == [ok |-> TRUE, err |-> "", text |-> text]
Err(kind, detail) == [ok |-> FALSE, err |-> kind, text |-> detail]

\* <ConsoleError as Display>::fmt
ErrorText(e) ==
    CASE e.err = "UnknownProperty" -> <<"U","n","k","n","o","w","n"," ","p","r","o","p","e","r","t","y">>
      [] e.err = "UnknownCommand"  -> <<"U","n","k","n","o","w","n"," ","c","o","m","m","a","n","d">>
      [] e.err = "InvalidValue"    -> <<"I","n","v","a","l","i","d"," ","v","a","l","u","e",":"," ">> \o e.text
      [] e.err = "InvalidUsage"    -> <<"U","s","a","g","e",":"," ">> \o e.text
      [] e.err = "NoResults"       -> <<"N","o"," ","r","e","s","u","l","t","s">>
      [] e.err = "Unimplemented"   -> <<"U","n","i","m","p","l","e","m","e","n","t","e","d">>
      [] OTHER                     -> e.text

White == <<2, 2, 2, 2>>
Red == <<2, 0, 0, 2>>

Span(color, text) == [color |-> color, text |-> text]

\* ColoredConsole::write: push the span
Write(b, span) == Append(b, span)

\* mutant of Writeln: the trimmed text is pushed without the newline
WritelnNoNewline(b, span) ==
    LET text == TrimEnd(span.text)
    IN  IF text # <<>> THEN Write(b, Span(span.color, text)) ELSE b

\* mutant of Writeln: the text is pushed with its trailing whitespace
WritelnUntrimmed(b, span) ==
    IF TrimEnd(span.text) # <<>> THEN Write(b, Span(span.color, span.text \o <<"\n">>)) ELSE b

\* mutant of Writeln: an empty text is pushed as an empty line
WritelnKeepsEmpty(b, span) ==
    Write(b, Span(span.color, TrimEnd(span.text) \o <<"\n">>))

\* ColoredConsole::writeln: trim, and push with a newline unless nothing is left
Writeln(b, span) ==
    LET text == TrimEnd(span.text)
    IN  IF text # <<>> THEN Write(b, Span(span.color, text \o <<"\n">>)) ELSE b

\* ColoredConsole::write_error: the error's text as a Custom error, in red
WriteError(b, text) == Writeln(b, Span(Red, text))

\* ColoredConsole::write_result
WriteResult(b, result) ==
    IF result.ok THEN Writeln(b, Span(White, result.text))
    ELSE WriteError(b, ErrorText(result))

\* ------------------------------------------------------------- NodeExt

\* mutant of Details: the default shown is the value the property has now
DetailsLiveDefault(node, path, c) ==
    CASE node.kind = "Prop" ->
           path \o <<":"," ">> \o Display(Ty(node.field), c[node.field])
                \o <<" ","(","D","e","f","a","u","l","t",":"," ">> \o Display(Ty(node.field), c[node.field])
                \o <<")","\n","\t">> \o node.desc \o <<"\n">>
      [] node.kind = "Action" ->
           LET parts == Split(node.desc, "\n")
               part1 == parts[1]
               part2 == Join(Tail(parts), <<"\n">>)
               args  == IF part2 # <<>> THEN part1 ELSE <<>>
               desc  == IF part2 # <<>> THEN part2 ELSE part1
           IN  path \o (IF args # <<>> THEN <<" ">> \o args ELSE <<>>)
                    \o <<":","\n","\t">> \o desc \o <<"\n">>
      [] OTHER -> <<>>

\* NodeExt::details: the help entry of a node (nothing for a list)
Details(node, path, c) ==
    CASE node.kind = "Prop" ->
           path \o <<":"," ">> \o Display(Ty(node.field), c[node.field])
                \o <<" ","(","D","e","f","a","u","l","t",":"," ">> \o Display(Ty(node.field), DefaultConfig[node.field])
                \o <<")","\n","\t">> \o node.desc \o <<"\n">>
      [] node.kind = "Action" ->
           LET parts == Split(node.desc, "\n")
               part1 == parts[1]
               part2 == Join(Tail(parts), <<"\n">>)
               args  == IF part2 # <<>> THEN part1 ELSE <<>>
               desc  == IF part2 # <<>> THEN part2 ELSE part1
           IN  path \o (IF args # <<>> THEN <<" ">> \o args ELSE <<>>)
                    \o <<":","\n","\t">> \o desc \o <<"\n">>
      [] OTHER -> <<>>

\* mutant of Kind: a namespace is taken for a property
KindListAsProp(node) == IF node.kind = "List" THEN "Prop" ELSE node.kind

\* NodeExt::kind
Kind(node) == node.kind

\* ------------------------------------------- CvarExt on the wrapped root

(***************************************************************************)
(* A cvar::IVisit on which the commands of CvarExt run: the configuration  *)
(* its nodes are bound to, the nodes its visit_mut emits, its private      *)
(* console, and the number of times its visit_mut has been entered.        *)
(***************************************************************************)
Visitor(c, nodes) == [cfg |-> c, console |-> <<>>, visits |-> 0, tree |-> nodes]

\* VisitMutExt::new: the wrapper of one dispatch, around the closure that
\* visits the root object
NewWrapper(c, closure) == Visitor(c, BuiltinNodes \o closure)

\* mutant of Visited: the closure is run twice by one visit_mut
VisitedTwice(w) == [w EXCEPT !.visits = @ + 2, !.console = <<>>]

(***************************************************************************)
(* VisitMutExt::visit_mut when no handler is invoked: the traversal's      *)
(* local console is still empty when it replaces the wrapper's.            *)
(***************************************************************************)
Visited(w) == [w EXCEPT !.visits = @ + 1, !.console = <<>>]

\* mutant of Get: the default is read instead of the current value
GetDefault(w, var) ==
    LET props == SelectSeq(FindNodes(w.tree, var), IsProp)
        p     == props[Len(props)]
    IN  [w   |-> Visited(w),
         res |-> IF props # <<>> THEN Ok(Display(Ty(p.field), DefaultConfig[p.field]))
                 ELSE Err("UnknownProperty", <<>>)]

\* CvarExt::get over cvar::console::get (the last matching property answers)
Get(w, var) ==
    LET props == SelectSeq(FindNodes(w.tree, var), IsProp)
        p     == props[Len(props)]
    IN  [w   |-> Visited(w),
         res |-> IF props # <<>> THEN Ok(Display(Ty(p.field), w.cfg[p.field]))
                 ELSE Err("UnknownProperty", <<>>)]

(***************************************************************************)
(* cvar::console::set: starts from Ok(false); each matching property       *)
(* parses the value and, when it parses, stores it (Ok(true)); a value     *)
(* that does not parse leaves the variable alone and yields the error.     *)
(***************************************************************************)
RECURSIVE SetProps(_, _, _)
SetProps(acc, props, val) ==
    IF props = <<>> THEN acc
    ELSE LET p == Head(props)
             r == Parse(Ty(p.field), val)
             n == IF r.ok
                  THEN [cfg |-> [acc.cfg EXCEPT ![p.field] = r.val],
                        ok |-> TRUE, success |-> TRUE, err |-> <<>>]
                  ELSE [cfg |-> acc.cfg, ok |-> FALSE, success |-> FALSE, err |-> r.err]
         IN  SetProps(n, Tail(props), val)

\* mutant of ResetProps: nothing is restored
ResetPropsKeep(c, props) == c

\* Property::reset on each of the given properties
RECURSIVE ResetProps(_, _)
ResetProps(c, props) ==
    IF props = <<>> THEN c
    ELSE ResetProps([c EXCEPT ![Head(props).field] = DefaultConfig[Head(props).field]],
                    Tail(props))

\* mutant of Set: a value that does not parse resets the property
SetClobbers(w, var, val) ==
    LET props == SelectSeq(FindNodes(w.tree, var), IsProp)
        r     == SetProps([cfg |-> w.cfg, ok |-> TRUE, success |-> FALSE, err |-> <<>>],
                          props, val)
    IN  [w   |-> [Visited(w) EXCEPT !.cfg = IF r.ok THEN r.cfg ELSE ResetProps(r.cfg, props)],
         res |-> IF ~r.ok THEN Err("InvalidValue", r.err)
                 ELSE IF r.success THEN Ok(<<>>)
                 ELSE Err("UnknownProperty", <<>>)]

\* CvarExt::set
Set(w, var, val) ==
    LET props == SelectSeq(FindNodes(w.tree, var), IsProp)
        r     == SetProps([cfg |-> w.cfg, ok |-> TRUE, success |-> FALSE, err |-> <<>>],
                          props, val)
    IN  [w   |-> [Visited(w) EXCEPT !.cfg = r.cfg],
         res |-> IF ~r.ok THEN Err("InvalidValue", r.err)
                 ELSE IF r.success THEN Ok(<<>>)
                 ELSE Err("UnknownProperty", <<>>)]

(***************************************************************************)
(* cvar::console::reset: a matching property is reset, a matching list has *)
(* every property below it reset, a matching action is ignored; the answer *)
(* is whether any node matched.                                            *)
(***************************************************************************)
ResetTargets(w, var) ==
    LET found == FindNodes(w.tree, var)
    IN  PropsBelow(found)

\* CvarExt::reset
Reset(w, var) ==
    LET found == FindNodes(w.tree, var)
    IN  [w   |-> [Visited(w) EXCEPT !.cfg = ResetProps(w.cfg, ResetTargets(w, var))],
         res |-> IF found # <<>> THEN Ok(<<>>) ELSE Err("UnknownProperty", <<>>)]

\* mutant of ResetAll: the properties below namespaces are not restored
ResetAllTop(w) ==
    [w   |-> [Visited(w) EXCEPT !.cfg = ResetProps(w.cfg, SelectSeq(w.tree, IsProp))],
     res |-> Ok(<<"O","K">>)]

\* CvarExt::reset_all over cvar::console::reset_all
ResetAll(w) ==
    [w   |-> [Visited(w) EXCEPT !.cfg = ResetProps(w.cfg, PropsBelow(w.tree))],
     res |-> Ok(<<"O","K">>)]

\* the three filters the code passes to CvarExt::find
FilterAll == [mode |-> "all", arg |-> <<>>]
FilterFind(var) == [mode |-> "find", arg |-> var]
FilterPrefix(cmd) == [mode |-> "prefix", arg |-> cmd]

\* mutant of Filter: a namespace lists every node
FilterListsAll(flt, path) ==
    CASE flt.mode = "all"    -> TRUE
      [] flt.mode = "find"   -> Contains(path, flt.arg) /\ path # <<"f","i","n","d">>
      [] flt.mode = "prefix" -> TRUE

\* mutant of Filter: find does not leave out its own entry
FilterKeepsFind(flt, path) ==
    CASE flt.mode = "all"    -> TRUE
      [] flt.mode = "find"   -> Contains(path, flt.arg)
      [] flt.mode = "prefix" -> StartsWith(path, flt.arg)

Filter(flt, path) ==
    CASE flt.mode = "all"    -> TRUE
      [] flt.mode = "find"   -> Contains(path, flt.arg) /\ path # <<"f","i","n","d">>
      [] flt.mode = "prefix" -> StartsWith(path, flt.arg)

\* the details of the walked nodes that pass the filter, in walk order
RECURSIVE Report(_, _, _)
Report(entries, flt, c) ==
    IF entries = <<>> THEN <<>>
    ELSE LET e == Head(entries)
         IN  (IF Filter(flt, e.path) THEN Details(e.node, e.path, c) ELSE <<>>)
             \o Report(Tail(entries), flt, c)

\* mutant of Find: an empty report is a success
FindEmptyOk(w, flt) ==
    [w   |-> Visited(w),
     res |-> Ok(Report(WalkNodes(w.tree, <<>>), flt, w.cfg))]

\* mutant of Find: the walk restores the defaults as it reports
FindResets(w, flt) ==
    LET out == Report(WalkNodes(w.tree, <<>>), flt, w.cfg)
    IN  [w   |-> [Visited(w) EXCEPT !.cfg = DefaultConfig],
         res |-> IF out # <<>> THEN Ok(out) ELSE Err("NoResults", <<>>)]

\* CvarExt::find
Find(w, flt) ==
    LET out == Report(WalkNodes(w.tree, <<>>), flt, w.cfg)
    IN  [w   |-> Visited(w),
         res |-> IF out # <<>> THEN Ok(out) ELSE Err("NoResults", <<>>)]

\* the details of the found nodes, each under the queried name
RECURSIVE HelpText(_, _, _)
HelpText(nodes, var, c) ==
    IF nodes = <<>> THEN <<>>
    ELSE Details(Head(nodes), var, c) \o HelpText(Tail(nodes), var, c)

\* mutant of Help: an unknown name is reported as an empty search
HelpNoResults(w, var) ==
    LET out == HelpText(FindNodes(w.tree, var), var, w.cfg)
    IN  [w   |-> Visited(w),
         res |-> IF out # <<>> THEN Ok(out) ELSE Err("NoResults", <<>>)]

\* CvarExt::help
Help(w, var) ==
    LET out == HelpText(FindNodes(w.tree, var), var, w.cfg)
    IN  [w   |-> Visited(w),
         res |-> IF out # <<>> THEN Ok(out) ELSE Err("UnknownProperty", <<>>)]

\* mutant of CmdType: the kind of the first node found is kept
CmdTypeFirst(w, var) ==
    LET found == FindNodes(w.tree, var)
    IN  [w |-> Visited(w),
         t |-> IF found = <<>> THEN "NotFound" ELSE Kind(found[1])]

\* CvarExt::cmdtype: the kind of the last node found, NotFound when none is
CmdType(w, var) ==
    LET found == FindNodes(w.tree, var)
    IN  [w |-> Visited(w),
         t |-> IF found = <<>> THEN "NotFound" ELSE Kind(found[Len(found)])]

\* ------------------------------------------------------ action handlers

(***************************************************************************)
(* A handler runs inside a traversal of the wrapper: env.w is the wrapper, *)
(* env.sink the traversal's local console (the IConsoleExt handed to the   *)
(* handlers) and env.plain the cvar console (exec's String).               *)
(***************************************************************************)

\* VisitMutExt::cmd_help
CmdHelp(env, args) ==
    LET r == IF args # <<>> THEN Help(env.w, args[1]) ELSE Find(env.w, FilterAll)
    IN  [env EXCEPT !.w = r.w, !.sink = WriteResult(env.sink, r.res)]

\* mutant of CmdFind: without an argument everything is searched for
CmdFindAll(env, args) ==
    LET r == Find(env.w, IF args # <<>> THEN FilterFind(args[1]) ELSE FilterAll)
    IN  [env EXCEPT !.w = r.w, !.sink = WriteResult(env.sink, r.res)]

\* VisitMutExt::cmd_find
CmdFind(env, args) ==
    IF args # <<>>
    THEN LET r == Find(env.w, FilterFind(args[1]))
         IN  [env EXCEPT !.w = r.w, !.sink = WriteResult(env.sink, r.res)]
    ELSE [env EXCEPT !.sink = WriteResult(env.sink, Err("InvalidUsage", <<"f","i","n","d"," ","<","n","a","m","e",">">>))]

\* VisitMutExt::cmd_reset
CmdReset(env, args) ==
    LET r == IF args # <<>> THEN Reset(env.w, args[1]) ELSE ResetAll(env.w)
    IN  [env EXCEPT !.w = r.w, !.sink = WriteResult(env.sink, r.res)]

\* color_test: 27 coloured squares (r, g, b from 2 down to 0), then a newline.
\* The square glyph is written "#".
RECURSIVE ColorSquares(_, _)
ColorSquares(b, k) ==
    IF k > 26 THEN b
    ELSE ColorSquares(
           Write(b, Span(<<2 - (k \div 9), 2 - ((k \div 3) % 3), 2 - (k % 3), 2>>, <<" ","#">>)),
           k + 1)

ColorTest(env) ==
    [env EXCEPT !.sink = Write(ColorSquares(env.sink, 0), Span(White, <<"\n">>))]

\* greet: IConsoleExt::write of one text to the sink
Greeting == <<"H","e","l","l","o",","," ","W","o","r","l","d","!">>

Greet(env) == [env EXCEPT !.sink = Write(env.sink, Span(White, Greeting))]

\* what an action closure writes to its second argument, the cvar console:
\* exec hands call a String, to which fmt::Write appends the text
WritePlain(env, text) == [env EXCEPT !.plain = @ \o text]

\* what an action closure writes to the coloured console of the traversal
WriteSink(env, span) == [env EXCEPT !.sink = Write(@, span)]

\* the text and the span of the two actions that write to both consoles
NoteText == <<"n","o","t","e">>
MarkSpan == Span(Red, <<"m","a","r","k">>)

\* an action that writes to the cvar console, then to the coloured console
PlainFirst(env) == WriteSink(WritePlain(env, NoteText), MarkSpan)

\* an action that writes to the coloured console, then to the cvar console
SinkFirst(env) == WritePlain(WriteSink(env, MarkSpan), NoteText)

Handler(env, h, args) ==
    CASE h = "help"        -> CmdHelp(env, args)
      [] h = "find"        -> CmdFind(env, args)
      [] h = "reset"       -> CmdReset(env, args)
      [] h = "color_test"  -> ColorTest(env)
      [] h = "greet"       -> Greet(env)
      [] h = "plain_first" -> PlainFirst(env)
      [] h = "sink_first"  -> SinkFirst(env)

\* cvar::console::invoke: every matching action is invoked, in emission order
RECURSIVE InvokeAll(_, _, _)
InvokeAll(env, acts, args) ==
    IF acts = <<>> THEN env
    ELSE InvokeAll(Handler(env, Head(acts).handler, args), Tail(acts), args)

\* mutant of Call: the console of the traversal does not replace the wrapper's,
\* which keeps what the traversal before or inside the call left
CallKeepsInner(w, cmd, args, plain) ==
    LET acts == SelectSeq(FindNodes(w.tree, cmd), IsAction)
        env  == InvokeAll([w |-> [w EXCEPT !.visits = @ + 1, !.console = <<>>],
                           sink |-> <<>>, plain |-> plain],
                          acts, args)
    IN  [w     |-> env.w,
         res   |-> IF acts # <<>> THEN Ok(<<>>) ELSE Err("UnknownCommand", <<>>),
         plain |-> env.plain]

(***************************************************************************)
(* CvarExt::call: one traversal of the wrapper (VisitMutExt::visit_mut)    *)
(* with a fresh local console; the handlers of the matching actions run    *)
(* inside it, and when it ends the local console becomes the wrapper's.    *)
(***************************************************************************)
Call(w, cmd, args, plain) ==
    LET acts == SelectSeq(FindNodes(w.tree, cmd), IsAction)
        env  == InvokeAll([w |-> [w EXCEPT !.visits = @ + 1], sink |-> <<>>, plain |-> plain],
                          acts, args)
    IN  [w     |-> [env.w EXCEPT !.console = env.sink],
         res   |-> IF acts # <<>> THEN Ok(<<>>) ELSE Err("UnknownCommand", <<>>),
         plain |-> env.plain]

\* CvarExt::exec
Exec(w, cmd, args) ==
    LET k == CmdType(w, cmd)
    IN  CASE k.t = "Prop" ->
               IF args # <<>>
               THEN LET r == Set(k.w, cmd, args[1])
                    IN  [w |-> r.w, res |-> r.res, fired |-> <<"set">>]
               ELSE LET r == Get(k.w, cmd)
                    IN  [w |-> r.w, res |-> r.res, fired |-> <<"get">>]
          [] k.t = "Action" ->
               LET r == Call(k.w, cmd, args, <<>>)
               IN  [w |-> r.w, res |-> Ok(r.plain), fired |-> <<"call">>]
          [] k.t = "List" ->
               LET r == Find(k.w, FilterPrefix(cmd))
               IN  [w |-> r.w, res |-> r.res, fired |-> <<"list">>]
          [] k.t = "NotFound" ->
               [w |-> k.w, res |-> Err("UnknownCommand", <<>>), fired |-> <<"notfound">>]

\* ----------------------------------------------------- the command lines

\* the paths of the registered properties
PropPaths == {<<"w","i","d","t","h">>, <<"h","e","i","g","h","t">>, <<"p","a","d","d","l","e",".","v","e","l","o","c","i","t","y">>, <<"p","a","d","d","l","e",".","c","o","l","o","r">>}

\* the paths of the registered actions
ActionPaths == {<<"h","e","l","p">>, <<"f","i","n","d">>, <<"r","e","s","e","t">>, <<"c","o","l","o","r","_","t","e","s","t">>, <<"g","r","e","e","t">>}

\* the paths of the registered namespaces
ListPaths == {<<"p","a","d","d","l","e">>}

\* names that resolve to no node
UnknownNames == {<<"b","o","g","u","s","_","c","o","m","m","a","n","d">>, <<>>, <<"v","e","l","o","c","i","t","y">>, <<"p","a","d">>}

Names == PropPaths \cup ActionPaths \cup ListPaths \cup UnknownNames

\* the set commands: a value that parses and one that does not for the flat
\* and for the nested f32 property, two values for the String property, and
\* a value that does not parse for height (which keeps its default)
SetLines ==
    {<<"w","i","d","t","h"," ","1",".","5","0">>, <<"w","i","d","t","h"," ","a","b","c">>, <<"h","e","i","g","h","t"," ","a","b","c">>,
     <<"p","a","d","d","l","e",".","v","e","l","o","c","i","t","y"," ","1",".","5","0">>, <<"p","a","d","d","l","e",".","v","e","l","o","c","i","t","y"," ","a","b","c">>,
     <<"p","a","d","d","l","e",".","c","o","l","o","r"," ","1",".","5","0">>, <<"p","a","d","d","l","e",".","c","o","l","o","r"," ","a","b","c">>}

\* argument tokens given to help, to find and to reset
HelpArgs == {<<>>, <<"z","z","z">>, <<"w","i","d","t","h">>, <<"g","r","e","e","t">>, <<"p","a","d","d","l","e">>}
FindArgs == {<<>>, <<"e">>, <<"v","e","l">>, <<"f","i","n","d">>, <<"z","z","z">>}
ResetArgs == {<<"w","i","d","t","h">>, <<"p","a","d","d","l","e",".","v","e","l","o","c","i","t","y">>, <<"p","a","d","d","l","e",".","c","o","l","o","r">>, <<"p","a","d","d","l","e">>, <<"g","r","e","e","t">>, <<"z","z","z">>}

\* lines with an empty token or with more than one argument
OddLines ==
    {<<"w","i","d","t","h"," ">>, <<"w","i","d","t","h"," "," ","1",".","5","0">>, <<"w","i","d","t","h"," ","1",".","5","0"," ","a","b","c">>, <<"g","r","e","e","t"," ","y","o","u">>, <<"b","o","g","u","s","_","c","o","m","m","a","n","d"," ","1",".","5","0">>}

Lines ==
    Names
    \cup SetLines
    \cup {<<"h","e","l","p"," ">> \o a : a \in HelpArgs}
    \cup {<<"f","i","n","d"," ">> \o a : a \in FindArgs}
    \cup {<<"r","e","s","e","t"," ">> \o a : a \in ResetArgs}
    \cup OddLines

\* ------------------------------------------------------ the state machine

(***************************************************************************)
(* cfg   the configuration object the console session owns (GameConfig)    *)
(* buf   ConsoleWindow.console.buf, the scrollback                         *)
(* last  what the most recent run_cmd did (history, not program state):    *)
(*       its line, the name and arguments it was split into, exec's        *)
(*       result, the arm of exec that fired, the traversals of the root,   *)
(*       the configuration and the scrollback length before it, and the    *)
(*       chain of commands on one property it completes (see NextChain)    *)
(***************************************************************************)
NoChain == [field |-> "", arg |-> <<>>, steps |-> <<>>]

NoCmd ==
    [ran |-> FALSE, line |-> <<>>, cmd |-> <<>>, args |-> <<>>, result |-> Ok(<<>>),
     fired |-> <<>>, visits |-> 0, cfg |-> DefaultConfig, mark |-> 0, chain |-> NoChain]

\* the field behind each property path
PathField(p) ==
    CASE p = <<"w","i","d","t","h">>           -> "width"
      [] p = <<"h","e","i","g","h","t">>          -> "height"
      [] p = <<"p","a","d","d","l","e",".","v","e","l","o","c","i","t","y">> -> "velocity"
      [] p = <<"p","a","d","d","l","e",".","c","o","l","o","r">>    -> "color"

(***************************************************************************)
(* The chain of consecutive commands on one property: a set `P X` that     *)
(* succeeded starts it, `reset P` right after the set and `P` (a get)      *)
(* right after either extend it; any other command ends it.                *)
(***************************************************************************)
NextChain(chain, cmd, args, res) ==
    IF cmd \in PropPaths /\ args # <<>> /\ res.ok
    THEN [field |-> PathField(cmd), arg |-> args[1], steps |-> <<"set">>]
    ELSE IF /\ cmd = <<"r","e","s","e","t">> /\ Len(args) = 1 /\ args[1] \in PropPaths
            /\ chain.steps = <<"set">> /\ chain.field = PathField(args[1])
    THEN [chain EXCEPT !.steps = <<"set", "reset">>]
    ELSE IF /\ cmd \in PropPaths /\ args = <<>>
            /\ chain.steps \in {<<"set">>, <<"set", "reset">>}
            /\ chain.field = PathField(cmd)
    THEN [chain EXCEPT !.steps = Append(@, "get")]
    ELSE NoChain

\* ConsoleWindow::new and T::default()
Init ==
    /\ cfg = DefaultConfig
    /\ buf = <<>>
    /\ last = NoCmd

\* mutant of RunCmdOn: the spans of the command are put before the scrollback
RunCmdPrepends(root, line) ==
    LET parts == Split(line, " ")
        cmd   == parts[1]
        args  == Tail(parts)
    IN  \E r \in {Exec(NewWrapper(cfg, root), cmd, args)} :
        /\ cfg' = r.w.cfg
        /\ buf' = WriteResult(<<>>, r.res) \o r.w.console \o buf
        /\ last' = [ran |-> TRUE, line |-> line, cmd |-> cmd, args |-> args,
                    result |-> r.res, fired |-> r.fired, visits |-> r.w.visits,
                    cfg |-> cfg, mark |-> Len(buf),
                    chain |-> NextChain(last.chain, cmd, args, r.res)]

\* mutant of RunCmdOn: the spans of the handlers are appended before the result
RunCmdSinkFirst(root, line) ==
    LET parts == Split(line, " ")
        cmd   == parts[1]
        args  == Tail(parts)
    IN  \E r \in {Exec(NewWrapper(cfg, root), cmd, args)} :
        /\ cfg' = r.w.cfg
        /\ buf' = WriteResult(buf \o r.w.console, r.res)
        /\ last' = [ran |-> TRUE, line |-> line, cmd |-> cmd, args |-> args,
                    result |-> r.res, fired |-> r.fired, visits |-> r.w.visits,
                    cfg |-> cfg, mark |-> Len(buf),
                    chain |-> NextChain(last.chain, cmd, args, r.res)]

\* ConsoleWindow::run_cmd(root, cmd), root being the nodes the root object registers
RunCmdOn(root, line) ==
    LET parts == Split(line, " ")
        cmd   == parts[1]
        args  == Tail(parts)
    IN  \E r \in {Exec(NewWrapper(cfg, root), cmd, args)} :
        /\ cfg' = r.w.cfg
        /\ buf' = WriteResult(buf, r.res) \o r.w.console
        /\ last' = [ran |-> TRUE, line |-> line, cmd |-> cmd, args |-> args,
                    result |-> r.res, fired |-> r.fired, visits |-> r.w.visits,
                    cfg |-> cfg, mark |-> Len(buf),
                    chain |-> NextChain(last.chain, cmd, args, r.res)]

\* a command line submitted to the console of the game
RunCmd(line) ==
    /\ Len(buf) <= MaxBuf
    /\ RunCmdOn(AppTree, line)

\* ConsoleWindow::clear
Clear ==
    /\ buf # <<>>
    /\ buf' = <<>>
    /\ last' = NoCmd
    /\ UNCHANGED cfg

Next ==
    \/ \E line \in Lines : RunCmd(line)
    \/ Clear

Spec == Init /\ [][Next]_vars

\* ------------------------------------- the library's functions called directly

(***************************************************************************)
(* The results handed to IConsoleExt::write_result: every kind of          *)
(* ConsoleError (Custom holds a TextSpan, of which Display uses the text   *)
(* only), with and without trailing whitespace, and successes whose text   *)
(* is empty, blank, plain, or ends in whitespace.                          *)
(***************************************************************************)
ErrorResults ==
    {Err("UnknownProperty", <<>>), Err("UnknownCommand", <<>>), Err("NoResults", <<>>),
     Err("Unimplemented", <<>>),
     Err("InvalidValue", InvalidFloat), Err("InvalidValue", <<>>),
     Err("InvalidUsage", <<"f","i","n","d"," ","<","n","a","m","e",">">>),
     Err("Custom", <<"b","o","o","m">>), Err("Custom", <<"b","o","o","m"," ","\n">>), Err("Custom", <<"a","\n","b">>),
     Err("Custom", <<>>), Err("Custom", <<" ","\n">>)}

OkResults ==
    {Ok(<<>>), Ok(<<" ","\t","\n">>), Ok(<<"1","0","0">>), Ok(<<"1","0","0"," ","\n">>), Ok(<<" ","x">>), Ok(<<"a","\n","b","\n">>)}

\* visitors CvarExt::find is called on: no node at all, a namespace with
\* nothing below it, the game's tree without and with the built-in actions
FindTrees == {<<>>, <<List(<<"p","a","d","d","l","e">>, <<"P","a","d","d","l","e"," ","s","e","t","t","i","n","g","s">>, <<>>)>>, AppTree, RootTree}

FindFilters ==
    {FilterAll, FilterFind(<<"e">>), FilterFind(<<"z","z","z">>), FilterFind(<<"f","i","n","d">>),
     FilterPrefix(<<"p","a","d","d","l","e">>), FilterPrefix(<<"z","z","z">>)}

\* what the most recent direct call was (history): the function, its inputs,
\* its result, the scrollback before it and its length
NoCall ==
    [op |-> "", result |-> Ok(<<>>), before |-> <<>>, mark |-> 0,
     tree |-> <<>>, flt |-> FilterAll]

ApiInit ==
    /\ cfg = DefaultConfig
    /\ buf = <<>>
    /\ last = NoCall

\* IConsoleExt::write_result on the console
WriteResultOf(r) ==
    /\ Len(buf) <= MaxSpans
    /\ buf' = WriteResult(buf, r)
    /\ last' = [op |-> "write_result", result |-> r, before |-> buf, mark |-> Len(buf),
                tree |-> <<>>, flt |-> FilterAll]
    /\ UNCHANGED cfg

\* CvarExt::find on a visitor, its result written to the console as
\* cmd_help and cmd_find write it
FindOn(nodes, flt) ==
    /\ Len(buf) <= MaxSpans
    /\ \E r \in {Find(Visitor(cfg, nodes), flt)} :
           /\ buf' = WriteResult(buf, r.res)
           /\ last' = [op |-> "find", result |-> r.res, before |-> buf,
                       mark |-> Len(buf), tree |-> nodes, flt |-> flt]
    /\ UNCHANGED cfg

ApiNext ==
    \/ \E r \in ErrorResults \cup OkResults : WriteResultOf(r)
    \/ \E nodes \in FindTrees, flt \in FindFilters : FindOn(nodes, flt)

ApiSpec == ApiInit /\ [][ApiNext]_vars

\* ------------------------------------------- a session that is never cleared

\* the lines submitted one after the other: a set that succeeds and one that
\* fails, a get, two actions that write to the sink, an unknown name, a
\* built-in that mutates and reports, a search, a namespace
OrderLines ==
    {<<"w","i","d","t","h"," ","1",".","5","0">>, <<"w","i","d","t","h"," ","a","b","c">>, <<"w","i","d","t","h">>, <<"g","r","e","e","t">>, <<"c","o","l","o","r","_","t","e","s","t">>, <<"b","o","g","u","s","_","c","o","m","m","a","n","d">>,
     <<"r","e","s","e","t">>, <<"f","i","n","d"," ","v","e","l">>, <<"p","a","d","d","l","e">>}

\* a command line submitted while earlier output is still in the scrollback
Submit(line) ==
    /\ Len(buf) <= MaxSpans
    /\ RunCmdOn(AppTree, line)

OrderNext == \E line \in OrderLines : Submit(line)

OrderSpec == Init /\ [][OrderNext]_vars

\* ------------------------------------- a root that registers names twice

(***************************************************************************)
(* The nodes of a root object whose visit_mut_ext emits some names more    *)
(* than once, over the fields of GameConfig: color_test names two actions, *)
(* width two properties (of the fields width and velocity), color a        *)
(* property and then an action, greet an action and then a property.       *)
(***************************************************************************)
TieTree ==
    << Action(<<"c","o","l","o","r","_","t","e","s","t">>, <<"T","e","s","t"," ","c","o","n","s","o","l","e"," ","c","o","l","o","r","s">>, "color_test"),
       Action(<<"c","o","l","o","r","_","t","e","s","t">>, <<"S","a","y"," ","h","e","l","l","o">>, "greet"),
       Property(<<"w","i","d","t","h">>, <<"A","r","e","n","a"," ","w","i","d","t","h">>, "width"),
       Property(<<"w","i","d","t","h">>, <<"p","a","d","d","l","e"," ","v","e","l","o","c","i","t","y">>, "velocity"),
       Property(<<"c","o","l","o","r">>, <<"p","a","d","d","l","e"," ","c","o","l","o","r">>, "color"),
       Action(<<"c","o","l","o","r">>, <<"S","a","y"," ","h","e","l","l","o">>, "greet"),
       Action(<<"g","r","e","e","t">>, <<"S","a","y"," ","h","e","l","l","o">>, "greet"),
       Property(<<"g","r","e","e","t">>, <<"A","r","e","n","a"," ","h","e","i","g","h","t">>, "height") >>

TieLines ==
    {<<"c","o","l","o","r","_","t","e","s","t">>, <<"w","i","d","t","h">>, <<"w","i","d","t","h"," ","1",".","5","0">>, <<"w","i","d","t","h"," ","a","b","c">>, <<"r","e","s","e","t"," ","w","i","d","t","h">>, <<"r","e","s","e","t">>,
     <<"c","o","l","o","r">>, <<"c","o","l","o","r"," ","a","b","c">>, <<"r","e","s","e","t"," ","c","o","l","o","r">>, <<"g","r","e","e","t">>, <<"g","r","e","e","t"," ","1",".","5","0">>, <<"r","e","s","e","t"," ","g","r","e","e","t">>,
     <<"h","e","l","p"," ","w","i","d","t","h">>, <<"b","o","g","u","s","_","c","o","m","m","a","n","d">>}

\* a command line submitted to the console of that root
RunTie(line) ==
    /\ Len(buf) <= MaxSpans
    /\ RunCmdOn(TieTree, line)

TieNext ==
    \/ \E line \in TieLines : RunTie(line)
    \/ Clear

TieSpec == Init /\ [][TieNext]_vars

\* ------------------------- a root whose actions write to both consoles

(***************************************************************************)
(* The nodes of a root object that registers, before those of GameConfig,  *)
(* two actions whose closures use both of their consoles: the cvar console *)
(* (second argument of the closure) and the coloured console of            *)
(* visit_mut_ext.                                                          *)
(***************************************************************************)
PlainTree ==
    << Action(<<"p","l","a","i","n","_","f","i","r","s","t">>, <<"W","r","i","t","e"," ","p","l","a","i","n",","," ","t","h","e","n"," ","c","o","l","o","u","r","e","d">>, "plain_first"),
       Action(<<"s","i","n","k","_","f","i","r","s","t">>, <<"W","r","i","t","e"," ","c","o","l","o","u","r","e","d",","," ","t","h","e","n"," ","p","l","a","i","n">>, "sink_first") >>
    \o AppTree

PlainLines ==
    {<<"p","l","a","i","n","_","f","i","r","s","t">>, <<"s","i","n","k","_","f","i","r","s","t">>, <<"p","l","a","i","n","_","f","i","r","s","t"," ","n","o","w">>, <<"g","r","e","e","t">>, <<"c","o","l","o","r","_","t","e","s","t">>,
     <<"w","i","d","t","h">>, <<"w","i","d","t","h"," ","1",".","5","0">>, <<"w","i","d","t","h"," ","a","b","c">>, <<"r","e","s","e","t">>, <<"h","e","l","p"," ","s","i","n","k","_","f","i","r","s","t">>,
     <<"f","i","n","d"," ","f","i","r","s","t">>, <<"b","o","g","u","s","_","c","o","m","m","a","n","d">>}

\* a command line submitted to the console of that root
RunPlain(line) ==
    /\ Len(buf) <= MaxSpans
    /\ RunCmdOn(PlainTree, line)

PlainNext ==
    \/ \E line \in PlainLines : RunPlain(line)
    \/ Clear

PlainSpec == Init /\ [][PlainNext]_vars

\* ------------------------------------- lines with more than one space

(***************************************************************************)
(* Lines typed into the console of the game whose spaces are not all       *)
(* single separators: a trailing space, two spaces before a value, a       *)
(* second value; beside them the plain get, set and reset of the same      *)
(* properties (one of type f32, one of type String).                       *)
(***************************************************************************)
SpaceLines ==
    OddLines
    \cup {<<"p","a","d","d","l","e",".","c","o","l","o","r"," ">>, <<"p","a","d","d","l","e",".","c","o","l","o","r"," "," ","a","b","c">>, <<"p","a","d","d","l","e",".","c","o","l","o","r"," ","a","b","c"," ","1",".","5","0">>,
          <<"p","a","d","d","l","e",".","c","o","l","o","r"," ","a","b","c">>, <<"p","a","d","d","l","e",".","c","o","l","o","r">>, <<"w","i","d","t","h">>, <<"w","i","d","t","h"," ","1",".","5","0">>,
          <<"h","e","l","p"," ">>, <<"r","e","s","e","t">>}

\* one of those lines submitted to the console of the game
RunSpaced(line) ==
    /\ Len(buf) <= MaxSpans
    /\ RunCmdOn(AppTree, line)

SpaceNext ==
    \/ \E line \in SpaceLines : RunSpaced(line)
    \/ Clear

SpaceSpec == Init /\ [][SpaceNext]_vars

\* the spans the most recent command appended to the scrollback
Appended == SubSeq(buf, last.mark + 1, Len(buf))

\* ------------------------------------------------------------ properties

\* every path at which a node is registered
AllPaths == PropPaths \cup ActionPaths \cup ListPaths

\* the type and the parse of the first argument of the most recent command,
\* read as a value for the property it names
LastTy == Ty(PathField(last.cmd))
LastParse == Parse(LastTy, last.args[1])

\* the most recent command was a set: a property name with an argument
LastIsSet == last.ran /\ last.cmd \in PropPaths /\ last.args # <<>>

\* the path an entry of a report is about: its header up to the first ':' or ' '
HeaderPath(l) ==
    LET stops == {i \in 1..Len(l) : l[i] \in {":", " "}}
    IN  IF stops = {} THEN l
        ELSE SubSeq(l, 1, (CHOOSE i \in stops : \A j \in stops : i <= j) - 1)

\* the paths a report has an entry for: the lines that are not description lines
ReportedPaths(text) ==
    LET ls == Split(text, "\n")
    IN  {HeaderPath(ls[i]) : i \in {j \in 1..Len(ls) : ls[j] # <<>> /\ ls[j][1] # "\t"}}

\* the report the most recent command wrote to the sink, empty when it wrote an error
SinkReport ==
    IF Len(Appended) = 1 /\ Appended[1].color = White THEN Appended[1].text ELSE <<>>

(***************************************************************************)
(* C1: dispatching `P X` with X parsing into P's type returns Ok("") and   *)
(* stores the parsed X in P (and nowhere else); a dispatch of `P` right    *)
(* after it returns Ok(text) with text the display form of X.              *)
(***************************************************************************)
C1_SetThenGet ==
    /\ (LastIsSet /\ LastParse.ok) =>
          /\ last.result = Ok(<<>>)
          /\ cfg = [last.cfg EXCEPT ![PathField(last.cmd)] = LastParse.val]
    /\ last.chain.steps = <<"set", "get">> =>
          last.result = Ok(Display(Ty(last.chain.field),
                                   Parse(Ty(last.chain.field), last.chain.arg).val))

\* `width 1.50` then `width`: the answer is "1.5"
C1_Witness ==
    /\ last.line = <<"w","i","d","t","h">>
    /\ last.chain = [field |-> "width", arg |-> <<"1",".","5","0">>, steps |-> <<"set", "get">>]
    /\ last.result = Ok(<<"1",".","5">>)

(***************************************************************************)
(* C2: after `P X` (X valid), then `reset P`, a dispatch of `P` returns    *)
(* exactly the display text of P's default.                                *)
(***************************************************************************)
C2_ResetThenGet ==
    last.chain.steps = <<"set", "reset", "get">> =>
        last.result = Ok(Display(Ty(last.chain.field), DefaultConfig[last.chain.field]))

\* `paddle.velocity 1.50`, `reset paddle.velocity`, `paddle.velocity`: "3"
C2_Witness ==
    /\ last.line = <<"p","a","d","d","l","e",".","v","e","l","o","c","i","t","y">>
    /\ last.chain.steps = <<"set", "reset", "get">>
    /\ last.chain.arg = <<"1",".","5","0">>
    /\ last.result = Ok(<<"3">>)

(***************************************************************************)
(* C3: dispatching `P X` with X not parsing into P's type returns          *)
(* Err(InvalidValue(detail)) and leaves every property as it was.          *)
(***************************************************************************)
C3_BadValueKeepsConfig ==
    (LastIsSet /\ ~LastParse.ok) =>
        /\ ~last.result.ok
        /\ last.result.err = "InvalidValue"
        /\ last.result.text = LastParse.err
        /\ cfg = last.cfg

\* `width abc` on a width that had been set to 1.5
C3_Witness ==
    /\ last.line = <<"w","i","d","t","h"," ","a","b","c">>
    /\ last.result = Err("InvalidValue", <<"i","n","v","a","l","i","d"," ","f","l","o","a","t"," ","l","i","t","e","r","a","l">>)
    /\ cfg.width = [neg |-> FALSE, mant |-> 15, frac |-> 1]

(***************************************************************************)
(* C4: exec performs exactly one of get, set, call, list, not-found: get   *)
(* only for a property name without arguments, set only for a property    *)
(* name with an argument, call only for an action name, list only for a   *)
(* namespace, not-found only when no node has the name.                    *)
(***************************************************************************)
C4_DispatchIsTotalAndExclusive ==
    last.ran =>
        /\ Len(last.fired) = 1
        /\ last.fired[1] \in {"get", "set", "call", "list", "notfound"}
        /\ last.fired[1] = "get" => last.cmd \in PropPaths /\ last.args = <<>>
        /\ last.fired[1] = "set" => last.cmd \in PropPaths /\ last.args # <<>>
        /\ last.fired[1] = "call" => last.cmd \in ActionPaths
        /\ last.fired[1] = "list" => last.cmd \in ListPaths
        /\ last.fired[1] = "notfound" => last.cmd \notin AllPaths

\* the namespace `paddle` dispatched as a list
C4_Witness == last.line = <<"p","a","d","d","l","e">> /\ last.fired = <<"list">>

(***************************************************************************)
(* C5: dispatching a name no node has (the empty name included) returns    *)
(* Err(UnknownCommand), changes no property, and appends exactly one red   *)
(* span, "Unknown command" and a newline.                                  *)
(***************************************************************************)
C5_UnknownCommand ==
    (last.ran /\ last.cmd \notin AllPaths) =>
        /\ last.result = Err("UnknownCommand", <<>>)
        /\ cfg = last.cfg
        /\ Appended = <<Span(Red, <<"U","n","k","n","o","w","n"," ","c","o","m","m","a","n","d","\n">>)>>

\* the empty line, on a configuration that is not the default one
C5_Witness ==
    /\ last.ran /\ last.line = <<>>
    /\ cfg # DefaultConfig
    /\ Appended = <<Span(Red, <<"U","n","k","n","o","w","n"," ","c","o","m","m","a","n","d","\n">>)>>

\* the most recent command was `find` with the empty string as its argument
LastIsFindEmpty == last.ran /\ last.cmd = <<"f","i","n","d">> /\ last.args = << <<>> >>

(***************************************************************************)
(* C6 as claimed: `find` with the empty string reports every registered    *)
(* property and every registered action, built-in ones included.           *)
(***************************************************************************)
C6_Original ==
    LastIsFindEmpty =>
        /\ SinkReport # <<>>
        /\ (PropPaths \cup ActionPaths) \subseteq ReportedPaths(SinkReport)

(***************************************************************************)
(* C6 amended: `find` with the empty string writes one non-empty report    *)
(* with an entry for every registered property and every registered action *)
(* except `find` itself, which the filter of cmd_find leaves out.          *)
(***************************************************************************)
C6_FindEmptyReportsAllButFind ==
    LastIsFindEmpty =>
        /\ Len(Appended) = 1
        /\ SinkReport # <<>>
        /\ ((PropPaths \cup ActionPaths) \ {<<"f","i","n","d">>}) \subseteq ReportedPaths(SinkReport)
        /\ <<"f","i","n","d">> \notin ReportedPaths(SinkReport)

\* `find ` reporting the nested property and the application's action
C6_Witness ==
    /\ LastIsFindEmpty
    /\ {<<"p","a","d","d","l","e",".","v","e","l","o","c","i","t","y">>, <<"g","r","e","e","t">>, <<"h","e","l","p">>} \subseteq ReportedPaths(SinkReport)

(***************************************************************************)
(* C7: the report of `find t` has an entry for exactly the properties and  *)
(* actions whose path contains t, the node whose path is `find` excepted   *)
(* (no report at all when there is none).                                  *)
(***************************************************************************)
C7_FindReportsExactlyTheMatches ==
    (last.ran /\ last.cmd = <<"f","i","n","d">> /\ last.args # <<>>) =>
        ReportedPaths(SinkReport)
          = {p \in PropPaths \cup ActionPaths : Contains(p, last.args[1]) /\ p # <<"f","i","n","d">>}

\* `find vel` reports paddle.velocity alone
C7_Witness ==
    /\ last.line = <<"f","i","n","d"," ","v","e","l">>
    /\ ReportedPaths(SinkReport) = {<<"p","a","d","d","l","e",".","v","e","l","o","c","i","t","y">>}

(***************************************************************************)
(* C8: `help name` with a name no node has yields Err(UnknownProperty),    *)
(* shown as one red line, and changes no property.                         *)
(***************************************************************************)
C8_HelpUnknownName ==
    (last.ran /\ last.cmd = <<"h","e","l","p">> /\ last.args # <<>> /\ last.args[1] \notin AllPaths) =>
        /\ Help(NewWrapper(last.cfg, AppTree), last.args[1]).res = Err("UnknownProperty", <<>>)
        /\ Appended = <<Span(Red, <<"U","n","k","n","o","w","n"," ","p","r","o","p","e","r","t","y","\n">>)>>
        /\ cfg = last.cfg

\* `help zzz` on a configuration that is not the default one
C8_Witness ==
    /\ last.line = <<"h","e","l","p"," ","z","z","z">>
    /\ cfg # DefaultConfig
    /\ Appended = <<Span(Red, <<"U","n","k","n","o","w","n"," ","p","r","o","p","e","r","t","y","\n">>)>>

\* the most recent command was `reset` with an argument
LastIsResetOf == last.ran /\ last.cmd = <<"r","e","s","e","t">> /\ last.args # <<>>

\* the fields of the properties registered below a namespace
ListFields(p) == IF p = <<"p","a","d","d","l","e">> THEN {"velocity", "color"} ELSE {}

\* the configuration c with the given fields back at their defaults
WithDefaults(c, fields) == [f \in Fields |-> IF f \in fields THEN DefaultConfig[f] ELSE c[f]]

\* `reset` without an argument restores every property and reports "OK"
ResetAllRestores ==
    (last.ran /\ last.cmd = <<"r","e","s","e","t">> /\ last.args = <<>>) =>
        /\ cfg = DefaultConfig
        /\ Appended = <<Span(White, <<"O","K","\n">>)>>

\* `reset P` restores the property P and no other
ResetOneRestores ==
    (LastIsResetOf /\ last.args[1] \in PropPaths) =>
        /\ cfg = WithDefaults(last.cfg, {PathField(last.args[1])})
        /\ Appended = <<>>

(***************************************************************************)
(* C9 as claimed: `reset` restores every property and reports "OK";        *)
(* `reset name` restores the named property only, and yields               *)
(* UnknownProperty with no change when no property has that name.          *)
(***************************************************************************)
C9_Original ==
    /\ ResetAllRestores
    /\ ResetOneRestores
    /\ (LastIsResetOf /\ last.args[1] \notin PropPaths) =>
          /\ cfg = last.cfg
          /\ Appended = <<Span(Red, <<"U","n","k","n","o","w","n"," ","p","r","o","p","e","r","t","y","\n">>)>>

(***************************************************************************)
(* C9 amended: `reset` restores every property and reports "OK";           *)
(* `reset name` restores the named property only, or every property below  *)
(* the named namespace, or nothing when name is an action (an empty        *)
(* success in these three cases); it yields UnknownProperty with no change *)
(* when no node has that name.                                             *)
(***************************************************************************)
C9_ResetRestoresDefaults ==
    /\ ResetAllRestores
    /\ ResetOneRestores
    /\ (LastIsResetOf /\ last.args[1] \in ListPaths) =>
          /\ cfg = WithDefaults(last.cfg, ListFields(last.args[1]))
          /\ Appended = <<>>
    /\ (LastIsResetOf /\ last.args[1] \in ActionPaths) =>
          /\ cfg = last.cfg
          /\ Appended = <<>>
    /\ (LastIsResetOf /\ last.args[1] \notin AllPaths) =>
          /\ cfg = last.cfg
          /\ Appended = <<Span(Red, <<"U","n","k","n","o","w","n"," ","p","r","o","p","e","r","t","y","\n">>)>>

\* `reset paddle.color` brings the colour back and leaves the changed width alone
C9_Witness ==
    /\ last.line = <<"r","e","s","e","t"," ","p","a","d","d","l","e",".","c","o","l","o","r">>
    /\ last.cfg.color # DefaultConfig.color
    /\ cfg.color = DefaultConfig.color
    /\ cfg.width # DefaultConfig.width

(***************************************************************************)
(* C10: dispatching an action whose handler writes one text T to the sink  *)
(* and returns an empty success appends exactly one span, white, holding   *)
(* T; exec's own empty result adds none.                                   *)
(***************************************************************************)
C10_GreetWritesOneSpan ==
    (last.ran /\ last.cmd = <<"g","r","e","e","t">>) =>
        /\ last.result = Ok(<<>>)
        /\ Appended = <<Span(White, Greeting)>>

\* `greet` with the scrollback one span longer than before
C10_Witness ==
    /\ last.line = <<"g","r","e","e","t">>
    /\ Len(buf) = last.mark + 1
    /\ buf[Len(buf)] = Span(White, <<"H","e","l","l","o",","," ","W","o","r","l","d","!">>)

\* the most recent command only reads: a property get, `find ...` or `help ...`
LastIsReadOnly ==
    last.ran /\ (last.fired = <<"get">> \/ last.cmd \in {<<"f","i","n","d">>, <<"h","e","l","p">>})

(***************************************************************************)
(* C11: a property get, `find ...` and `help ...` leave the value of every *)
(* property as it was before the command (the defaults are DefaultConfig,  *)
(* which no command can change).                                           *)
(***************************************************************************)
C11_ReadOnlyKeepsConfig == LastIsReadOnly => cfg = last.cfg

\* `find e` on a configuration that is not the default one
C11_Witness ==
    /\ last.line = <<"f","i","n","d"," ","e">>
    /\ cfg # DefaultConfig
    /\ cfg = last.cfg
    /\ SinkReport # <<>>

\* the most recent direct call was write_result on an error
LastWroteError == last.op = "write_result" /\ ~last.result.ok

(***************************************************************************)
(* C12: write_result of Err(e), for every kind of ConsoleError, appends    *)
(* exactly one span, opaque red, that carries the message of e.            *)
(***************************************************************************)
C12_EveryErrorIsOneRedSpan ==
    LastWroteError =>
        /\ Len(Appended) = 1
        /\ Appended[1].color = Red
        /\ Contains(Appended[1].text, TrimEnd(ErrorText(last.result)))

\* t is s without its trailing whitespace
IsTrimOf(t, s) ==
    /\ StartsWith(s, t)
    /\ \A i \in (Len(t) + 1)..Len(s) : s[i] \in Whitespace
    /\ t = <<>> \/ t[Len(t)] \notin Whitespace

\* the most recent direct call was CvarExt::find
LastIsFindCall == last.op = "find"

\* the paths of the properties and actions a visitor registers
Reportable(nodes) ==
    CASE nodes = RootTree -> PropPaths \cup ActionPaths
      [] nodes = AppTree  -> (PropPaths \cup ActionPaths) \ {<<"h","e","l","p">>, <<"f","i","n","d">>, <<"r","e","s","e","t">>}
      [] OTHER            -> {}

\* the registered paths the filter of the most recent find lets through
LastMatches == {p \in Reportable(last.tree) : Filter(last.flt, p)}

(***************************************************************************)
(* C13: a find whose filter lets no property and no action through (a      *)
(* search text no path but `find` contains, or the filter of `help`        *)
(* without argument over a visitor with nothing to report) yields          *)
(* Err(NoResults), shown as one red line; find never yields an empty       *)
(* success, and it succeeds whenever something passes the filter.          *)
(***************************************************************************)
C13_NothingFoundIsNoResults ==
    LastIsFindCall =>
        /\ last.result # Ok(<<>>)
        /\ LastMatches = {} =>
              /\ last.result = Err("NoResults", <<>>)
              /\ buf = last.before \o <<Span(Red, <<"N","o"," ","r","e","s","u","l","t","s","\n">>)>>
        /\ LastMatches # {} => last.result.ok

\* the filter of `help` over a visitor that registers an empty namespace only
C13_Witness ==
    /\ LastIsFindCall
    /\ last.tree = <<List(<<"p","a","d","d","l","e">>, <<"P","a","d","d","l","e"," ","s","e","t","t","i","n","g","s">>, <<>>)>>
    /\ last.flt = FilterAll
    /\ last.result = Err("NoResults", <<>>)
    /\ Len(last.before) = 1
    /\ Len(buf) = 2


(***************************************************************************)
(* C14: `find` dispatched without any argument produces                    *)
(* Err(InvalidUsage("find <name>")), shown as one red usage line; no       *)
(* search is made (the root is traversed for the classification and for    *)
(* the call only) and no property changes.                                 *)
(***************************************************************************)
C14_FindWithoutArgument ==
    (last.ran /\ last.cmd = <<"f","i","n","d">> /\ last.args = <<>>) =>
        /\ Appended = WriteResult(<<>>, Err("InvalidUsage", <<"f","i","n","d"," ","<","n","a","m","e",">">>))
        /\ Appended = <<Span(Red, <<"U","s","a","g","e",":"," ","f","i","n","d"," ","<","n","a","m","e",">","\n">>)>>
        /\ last.visits = 2
        /\ cfg = last.cfg

\* `find` alone on a configuration that is not the default one
C14_Witness ==
    /\ last.ran /\ last.line = <<"f","i","n","d">>
    /\ cfg # DefaultConfig
    /\ buf = <<Span(Red, <<"U","s","a","g","e",":"," ","f","i","n","d"," ","<","n","a","m","e",">","\n">>)>>

\* the most recent direct call was write_result on a success
LastWroteOk == last.op = "write_result" /\ last.result.ok

(***************************************************************************)
(* C15: write_result of Ok(text) appends at most one span: when text       *)
(* without its trailing whitespace is not empty, one opaque white span     *)
(* holding it and one newline; when it is empty, nothing, and the buffer   *)
(* is as before.                                                           *)
(***************************************************************************)
C15_OkIsOneTrimmedWhiteLine ==
    LastWroteOk =>
        \/ /\ buf = last.before
           /\ IsTrimOf(<<>>, last.result.text)
        \/ /\ Len(buf) = Len(last.before) + 1
           /\ SubSeq(buf, 1, Len(last.before)) = last.before
           /\ buf[Len(buf)].color = White
           /\ \E n \in 1..Len(last.result.text) :
                  /\ IsTrimOf(SubSeq(last.result.text, 1, n), last.result.text)
                  /\ buf[Len(buf)].text = SubSeq(last.result.text, 1, n) \o <<"\n">>

\* "100 \n" written after another span: one white "100\n" is added
C15_Witness ==
    /\ LastWroteOk
    /\ last.result.text = <<"1","0","0"," ","\n">>
    /\ Len(last.before) = 1
    /\ buf = last.before \o <<Span(White, <<"1","0","0","\n">>)>>

(***************************************************************************)
(* C16 as claimed: one dispatch enters the visit of the root at most once, *)
(* whatever the kind of command.                                           *)
(***************************************************************************)
C16_Original == last.ran => last.visits <= 1

\* the built-in handler of the most recent command starts a traversal of its
\* own: help, reset (with or without argument) and find with an argument
LastHandlerTraverses ==
    \/ last.cmd \in {<<"h","e","l","p">>, <<"r","e","s","e","t">>}
    \/ last.cmd = <<"f","i","n","d">> /\ last.args # <<>>

(***************************************************************************)
(* C16 amended: one dispatch enters the visit of the root once when the    *)
(* name is unknown (the classification), twice for a get, a set, a         *)
(* namespace listing and an action (the classification, then the           *)
(* operation), and three times when the action is help, reset or find with *)
(* an argument, whose handler traverses again inside the call; never more  *)
(* than three times.                                                       *)
(***************************************************************************)
C16_TraversalsPerDispatch ==
    last.ran =>
        /\ last.visits \in 1..3
        /\ last.fired = <<"notfound">> => last.visits = 1
        /\ last.fired \in {<<"get">>, <<"set">>, <<"list">>} => last.visits = 2
        /\ last.fired = <<"call">> =>
              last.visits = IF LastHandlerTraverses THEN 3 ELSE 2

\* `reset width`: classification, call, and the reset inside the call
C16_Witness ==
    /\ last.line = <<"r","e","s","e","t"," ","w","i","d","t","h">>
    /\ last.visits = 3
    /\ last.cfg.width # DefaultConfig.width
    /\ cfg.width = DefaultConfig.width

(***************************************************************************)
(* C17: commands are processed in submission order.  Every run_cmd step    *)
(* keeps the scrollback it finds as a prefix of the new one (no span is    *)
(* removed or altered, the spans of the command come after all earlier     *)
(* ones), starts from the configuration the command before it left, and    *)
(* its spans are those of a dispatch on that configuration, the result     *)
(* first.                                                                  *)
(***************************************************************************)
C17_SubmissionOrder ==
    [][last'.ran =>
          /\ Len(buf') >= Len(buf)
          /\ SubSeq(buf', 1, Len(buf)) = buf
          /\ last'.mark = Len(buf)
          /\ last'.cfg = cfg
          /\ LET r == Exec(NewWrapper(cfg, AppTree), last'.cmd, last'.args)
             IN  /\ cfg' = r.w.cfg
                 /\ SubSeq(buf', Len(buf) + 1, Len(buf'))
                      = WriteResult(<<>>, r.res) \o r.w.console]_vars

\* `width 1.50`, `greet`, `width`: the greeting, then the width that was set
C17_Witness ==
    /\ last.line = <<"w","i","d","t","h">>
    /\ buf = <<Span(White, Greeting), Span(White, <<"1",".","5","\n">>)>>

\* the handler of the action the most recent command names
LastHandler ==
    CASE last.cmd = <<"h","e","l","p">>       -> "help"
      [] last.cmd = <<"f","i","n","d">>       -> "find"
      [] last.cmd = <<"r","e","s","e","t">>      -> "reset"
      [] last.cmd = <<"c","o","l","o","r","_","t","e","s","t">> -> "color_test"
      [] last.cmd = <<"g","r","e","e","t">>      -> "greet"

\* the spans the handlers of the most recent command wrote to the sink, in
\* the order written: those its handler writes to an empty sink when run on
\* the configuration before the command
LastWritten ==
    IF last.ran /\ last.cmd \in ActionPaths
    THEN Handler([w |-> NewWrapper(last.cfg, AppTree), sink |-> <<>>, plain |-> <<>>],
                 LastHandler, last.args).sink
    ELSE <<>>

(***************************************************************************)
(* C18: when run_cmd returns, the scrollback holds, after the span of      *)
(* exec's result, every span the handlers wrote to the sink during the     *)
(* dispatch, in the order written; none is lost to the traversals (the     *)
(* classification before the call, the handler's own inside it) that       *)
(* replace the wrapper's private console.                                  *)
(***************************************************************************)
C18_SinkIsDrained ==
    last.ran =>
        Appended = WriteResult(<<>>, last.result) \o LastWritten

\* `help width`: the handler traverses inside the call and its report is shown
C18_Witness ==
    /\ last.line = <<"h","e","l","p"," ","w","i","d","t","h">>
    /\ last.visits = 3
    /\ LastWritten # <<>>
    /\ Appended = <<Span(White, <<"w","i","d","t","h",":"," ","1",".","5"," ","(","D","e","f","a","u","l","t",":"," ","1","0","0",")","\n","\t","A","r","e","n","a"," ","w","i","d","t","h","\n">>)>>

\* the most recent command named the twice-registered property with a value
\* that parses / without a value / in a reset
LastSetsBoth == last.ran /\ last.cmd = <<"w","i","d","t","h">> /\ last.args # <<>> /\ ParseF32(last.args[1]).ok
LastGetsWidth == last.ran /\ last.cmd = <<"w","i","d","t","h">> /\ last.args = <<>>
LastResetsWidth == last.ran /\ last.cmd = <<"r","e","s","e","t">> /\ last.args = <<<<"w","i","d","t","h">>>>

\* the spans color_test writes, and the span greet writes
SquaresWritten == ColorTest([sink |-> <<>>]).sink
GreetWritten == <<Span(White, Greeting)>>

LastBelow == {p \in PropPaths \cup ActionPaths : StartsWith(p, last.cmd)}

\* the name of the most recent command resolves to no node but some
\* registered path starts with it
LastIsBarePrefix ==
    /\ last.ran /\ last.cmd \notin AllPaths /\ last.cmd # <<>>
    /\ \E p \in AllPaths : StartsWith(p, last.cmd)

(***************************************************************************)
(* C20 as claimed: a name that resolves to a namespace, or to no node      *)
(* while registered paths start with it, is answered with a report of the  *)
(* nodes whose path starts with it and not with UnknownCommand.            *)
(***************************************************************************)
C20_Original ==
    ((last.ran /\ last.cmd \in ListPaths) \/ LastIsBarePrefix) =>
        /\ last.result.ok
        /\ ReportedPaths(last.result.text) = LastBelow

(***************************************************************************)
(* C20 amended: a name that resolves to a namespace is answered with a     *)
(* find-style report, one white span, of exactly the properties and        *)
(* actions whose path starts with it, and changes nothing; a name that     *)
(* resolves to no node is answered with UnknownCommand even when           *)
(* registered paths start with it.                                         *)
(***************************************************************************)
C20_ListsOnlyNamespaces ==
    /\ (last.ran /\ last.cmd \in ListPaths) =>
          /\ last.fired = <<"list">>
          /\ last.result.ok
          /\ LastBelow # {}
          /\ ReportedPaths(last.result.text) = LastBelow
          /\ Appended = <<Span(White, last.result.text)>>
          /\ cfg = last.cfg
    /\ LastIsBarePrefix =>
          /\ last.fired = <<"notfound">>
          /\ last.result = Err("UnknownCommand", <<>>)
          /\ cfg = last.cfg

\* `paddle` lists the two properties below it, with the colour that was set
C20_Witness ==
    /\ last.line = <<"p","a","d","d","l","e">>
    /\ last.result = Ok(<<"p","a","d","d","l","e",".","v","e","l","o","c","i","t","y",":"," ","3"," ","(","D","e","f","a","u","l","t",":"," ","3",")","\n","\t","p","a","d","d","l","e"," ","v","e","l","o","c","i","t","y","\n","p","a","d","d","l","e",".","c","o","l","o","r",":"," ","a","b","c"," ","(","D","e","f","a","u","l","t",":"," ","w","h","i","t","e",")","\n","\t","p","a","d","d","l","e"," ","c","o","l","o","r","\n">>)
    /\ ReportedPaths(last.result.text) = {<<"p","a","d","d","l","e",".","v","e","l","o","c","i","t","y">>, <<"p","a","d","d","l","e",".","c","o","l","o","r">>}

\* the text that comes before the default in the entry of a property
DefaultMark == <<" ","(","D","e","f","a","u","l","t",":"," ">>

\* the entries of properties among the lines of a text
PropLines(text) ==
    LET ls == Split(text, "\n")
    IN  {ls[i] : i \in {j \in 1..Len(ls) : Contains(ls[j], DefaultMark) /\ ls[j][1] # "\t"}}

\* the default an entry shows: what stands between the mark and the last ')'
DefaultShown(l) ==
    LET at == {k \in 1..(Len(l) - Len(DefaultMark) + 1) : SubSeq(l, k, k + Len(DefaultMark) - 1) = DefaultMark}
        k  == CHOOSE x \in at : \A y \in at : y <= x
    IN  SubSeq(l, k + Len(DefaultMark), Len(l) - 1)

\* the pairs of path and default shown by the spans the most recent command appended
LastShownDefaults ==
    UNION {{<<HeaderPath(l), DefaultShown(l)>> : l \in PropLines(Appended[i].text)} :
             i \in 1..Len(Appended)}

\* the display text of the default a property had when the session began
StartDefault(p) == Display(Ty(PathField(p)), DefaultConfig[PathField(p)])

(***************************************************************************)
(* C21: after any sequence of commands the default of a property is the    *)
(* one it had when the session began: every `Default:` field that help,    *)
(* find or a namespace listing shows holds it, and `reset P` and `reset`   *)
(* put it back in P (in every property).                                   *)
(***************************************************************************)
C21_DefaultsNeverChange ==
    last.ran =>
        /\ \A d \in LastShownDefaults : d[1] \in PropPaths /\ d[2] = StartDefault(d[1])
        /\ (LastIsResetOf /\ last.args[1] \in PropPaths) =>
              cfg[PathField(last.args[1])] = DefaultConfig[PathField(last.args[1])]
        /\ (last.cmd = <<"r","e","s","e","t">> /\ last.args = <<>>) => cfg = DefaultConfig

\* `help` after the width and the colour were set: four defaults are shown
C21_Witness ==
    /\ last.line = <<"h","e","l","p">>
    /\ cfg.width # DefaultConfig.width
    /\ cfg.color # DefaultConfig.color
    /\ LastShownDefaults = {<<<<"w","i","d","t","h">>, <<"1","0","0">>>>, <<<<"h","e","i","g","h","t">>, <<"1","0","0">>>>,
                            <<<<"p","a","d","d","l","e",".","v","e","l","o","c","i","t","y">>, <<"3">>>>, <<<<"p","a","d","d","l","e",".","c","o","l","o","r">>, <<"w","h","i","t","e">>>>}

\* the most recent command named one of the actions that write to both consoles
LastWritesBoth == last.ran /\ last.cmd \in {<<"p","l","a","i","n","_","f","i","r","s","t">>, <<"s","i","n","k","_","f","i","r","s","t">>}

\* the handler of the action of PlainTree the most recent command names
LastPlainHandler ==
    CASE last.cmd = <<"p","l","a","i","n","_","f","i","r","s","t">> -> "plain_first"
      [] last.cmd = <<"s","i","n","k","_","f","i","r","s","t">>  -> "sink_first"
      [] last.cmd = <<"h","e","l","p">>        -> "help"
      [] last.cmd = <<"f","i","n","d">>        -> "find"
      [] last.cmd = <<"r","e","s","e","t">>       -> "reset"
      [] last.cmd = <<"c","o","l","o","r","_","t","e","s","t">>  -> "color_test"
      [] last.cmd = <<"g","r","e","e","t">>       -> "greet"
      [] OTHER                     -> ""

\* the spans the handler of the most recent command wrote to the coloured console
LastSinkSpans ==
    IF last.ran /\ LastPlainHandler # ""
    THEN Handler([w |-> NewWrapper(last.cfg, PlainTree), sink |-> <<>>, plain |-> <<>>],
                 LastPlainHandler, last.args).sink
    ELSE <<>>

(***************************************************************************)
(* C22: the span run_cmd renders from exec's result comes, in the          *)
(* scrollback, before the spans the handlers wrote to the coloured console *)
(* during the same dispatch.  An action that writes a text to the cvar     *)
(* console and a span to the coloured console is therefore shown as the    *)
(* text (white, with a line feed) followed by the span, whether it wrote   *)
(* the text first or the span first.                                       *)
(***************************************************************************)
C22_PlainTextIsShownFirst ==
    last.ran =>
        /\ Appended = WriteResult(<<>>, last.result) \o LastSinkSpans
        /\ LastWritesBoth =>
              /\ last.result = Ok(NoteText)
              /\ LastSinkSpans = <<MarkSpan>>
              /\ Appended = <<Span(White, NoteText \o <<"\n">>), MarkSpan>>

\* sink_first wrote the span before the text, and the text is shown before it
C22_Witness ==
    /\ last.line = <<"s","i","n","k","_","f","i","r","s","t">>
    /\ LastSinkSpans = <<MarkSpan>>
    /\ Len(Appended) = 2
    /\ Appended[1].text = <<"n","o","t","e","\n">>
    /\ Appended[2] = MarkSpan

\* the positions of the spaces of a line
SpacesOf(line) == {i \in 1..Len(line) : line[i] = " "}

\* what stands between the first space of a line and its second space (or its end)
FirstArg(line) ==
    LET a     == CHOOSE i \in SpacesOf(line) : \A j \in SpacesOf(line) : i <= j
        later == {i \in SpacesOf(line) : i > a}
        b     == IF later = {} THEN Len(line) + 1
                 ELSE CHOOSE i \in later : \A j \in later : i <= j
    IN  SubSeq(line, a + 1, b - 1)

(***************************************************************************)
(* C23: run_cmd cuts the line at every space and keeps the empty tokens:   *)
(* there are as many argument tokens as spaces, and the tokens joined by   *)
(* single spaces are the line.  A property name followed by a space is     *)
(* therefore dispatched as a set (a get only when the line has no space),  *)
(* and the value set is what stands between the first space and the next   *)
(* one: the empty string for a trailing space or for two spaces before a   *)
(* value, whatever tokens follow.                                          *)
(***************************************************************************)
C23_EverySpaceCuts ==
    last.ran =>
        /\ Len(last.args) = Cardinality(SpacesOf(last.line))
        /\ Join(<<last.cmd>> \o last.args, <<" ">>) = last.line
        /\ (last.cmd \in PropPaths /\ SpacesOf(last.line) = {}) => last.fired = <<"get">>
        /\ (last.cmd \in PropPaths /\ SpacesOf(last.line) # {}) =>
              /\ last.fired = <<"set">>
              /\ LET p == Parse(LastTy, FirstArg(last.line))
                 IN  IF p.ok
                     THEN /\ last.result = Ok(<<>>)
                          /\ cfg = [last.cfg EXCEPT ![PathField(last.cmd)] = p.val]
                     ELSE /\ last.result = Err("InvalidValue", p.err)
                          /\ cfg = last.cfg

\* `width  1.50` on a width of 1.5: a set of the empty string, which no f32 parses from
C23_Witness ==
    /\ last.line = <<"w","i","d","t","h"," "," ","1",".","5","0">>
    /\ last.args = <<<<>>, <<"1",".","5","0">>>>
    /\ last.fired = <<"set">>
    /\ last.result = Err("InvalidValue", EmptyFloat)
    /\ last.cfg.width = [neg |-> FALSE, mant |-> 15, frac |-> 1]
    /\ cfg = last.cfg
====
